---- MODULE Spec2Model ----
(***************************************************************************)
(* OffRecord: anonymous peer feedback for small groups.                    *)
(*                                                                         *)
(* The model covers the Supabase deployment the README describes           *)
(* (supabase/schema.sql followed by supabase/patch.sql) together with the  *)
(* React client that talks to it (the Supabase db module and the App that  *)
(* calls it).  The database is modelled at the level of committed rows     *)
(* plus the in-flight submit_feedback transactions; each browser session   *)
(* keeps its own copy of the group, of the status of the group card and of *)
(* the survey form.                                                        *)
(***************************************************************************)
EXTENDS Integers, Sequences, FiniteSets, TLC

\* ---------------------------------------------------------------- bounds
\* Number of submit_feedback calls issued in one behaviour.
MaxCalls == 2
\* Number of sessions that have the survey screen open at the same time.
MaxOpenSurveys == 1
\* Number of times invitations are stamped as redeemed by direct calls of the
\* redeem_invitation endpoint.
MaxRedeems == 2
MaxResponses == 1     \* response documents one identity adds
MaxRawMembers == 2    \* members typed into one createGroup or updateGroupMembers call
MaxInviteRows == 2    \* invitation rows of one email
MaxLookups == 2       \* identity lookups started in one behaviour
MaxItems == 5         \* invitations handed to one runWithConcurrency call

\* ------------------------------------------------------------- universe
NULL == "null"
\* auth.users: the host signs up with an email and a password, members sign
\* in anonymously; every invite login creates a fresh anonymous user.
Host == "h"
Sessions == {"u1", "u2"}
Uids == {Host} \cup Sessions
HostEmail == "host"
MemberEmails == {"a", "b"}
\* An address that is on no roster.
Outsider == "x"
\* Point values typed into the score field of the survey.
Scores == {100, 150}
\* What a respondent types for one recipient: both texts and a score.
Edits == {[strengths |-> "t", improvements |-> "t", score |-> s] : s \in Scores}
\* One change of one field of the survey form: a text (empty, blank or not)
\* or what parseInt makes of the score field.
FieldEdits ==
  {[strengths |-> v] : v \in {"", " ", "t"}}
    \cup {[improvements |-> v] : v \in {"", " ", "t"}}
    \cup {[score |-> s] : s \in {-50, 0, 50, 100, 150}}
\* Rosters typed into the create-group form (the host is added by createGroup).
CreateInputs == {<<"a">>, <<"a", "b">>}
CallIds == 1..MaxCalls
\* The SQL that has been run: schema.sql alone, or schema.sql and then patch.sql
\* as the README asks.
Deployments == {"schema", "patch"}
FsEmails == {"a", "b", "c"}
Tokens == {"", "bad"} \cup Uids
GroupIds == {"", "g", "zz"}
Providers == {"none", "resend"}
ListedIds == {"g1", "g2"}
RawNames == {"", " ", "g"}
RawEmails == {"", "a", "A", "b", "host"}
RawMemberLists == UNION {[1..n -> RawEmails] : n \in 0..MaxRawMembers}
FsCreateInputs == {<<"a", "b">>, <<"a", "b", "c">>}

Range(s) == {s[i] : i \in 1..Len(s)}

RECURSIVE SumScores(_)
SumScores(rs) == IF rs = << >> THEN 0 ELSE Head(rs).score + SumScores(Tail(rs))

RECURSIVE SetToSeq(_)
SetToSeq(S) == IF S = {} THEN << >> ELSE LET x == CHOOSE x \in S : TRUE IN <<x>> \o SetToSeq(S \ {x})

RECURSIVE FilterOut(_, _)
\* Array.prototype.filter((m) => m.emailLower !== e)
FilterOut(ms, e) ==
  IF ms = << >> THEN << >>
  ELSE IF Head(ms) = e THEN FilterOut(Tail(ms), e)
       ELSE <<Head(ms)>> \o FilterOut(Tail(ms), e)

\* lower(): the addresses of the model are lower case except "A".
Lower(e) == IF e = "A" THEN "a" ELSE e

VARIABLES
  group,        \* public.groups: the one group row, [exists, members]
  invitations,  \* public.invitations: email -> [exists, redeemed_by_uid]
  submissions,  \* public.submissions: number of committed rows of each respondent_uid
  feedback,     \* public.feedback: committed rows
  calls,        \* submit_feedback calls: transaction state of each call
  nextCall,     \* number of submit_feedback calls issued so far
  user,         \* AuthProvider user.emailLower of each session ("" = not signed in)
  cgroup,       \* Dashboard groups: the group as last loaded by each session
  status,       \* GroupCard status of each session
  survey,       \* SurveyScreen state of each session
  pdf,          \* FeedbackPDFModal of each session: the feedback rows it loaded
  deployment,   \* which SQL files have been run
  redeem,       \* redeem_invitation calls made on the endpoint, one per caller
  delResult,    \* how the last deleteGroupCascade call of each caller ended
  create,       \* the host's createGroup call: its arguments, position and error
  mail,         \* send-invites: the provider set up, the last request and the mails sent
  dash,         \* Dashboard of one user: groups, groupsError, loadingGroups, the two queries
  fsGroup,      \* Firestore: the document of the group in "groups"
  fsInvitations,\* Firestore: the documents of the group in "invitations"
  fsResponses,  \* Firestore: number of documents of the group in "responses", per respondent
  fsCreate,     \* Firestore createGroup: invitations it has still to write
  fsBatch,      \* Firestore deleteGroupCascade: its position and its write batch
  fsRedeem,     \* Firestore redeemInvitationForUser: the invitation each caller has read
  auth,         \* AuthProvider: the user state, cancelled, and the identity lookups in flight
  pool          \* runWithConcurrency: one call, its workers, nextIndex and results

dbvars == <<group, invitations, submissions, feedback>>
uivars == <<cgroup, status, survey, pdf>>
fsvars == <<fsGroup, fsInvitations, fsResponses, fsCreate, fsBatch, fsRedeem>>
jsvars == <<auth, pool>>
rpcvars == <<deployment, redeem, delResult, create, mail, dash, fsvars, jsvars>>
vars == <<group, invitations, submissions, feedback, calls, nextCall, user,
          cgroup, status, survey, pdf, deployment, redeem, delResult, create, mail, dash, fsvars,
          auth, pool>>
sqlvarsNoDash == <<dbvars, calls, nextCall, user, uivars, deployment, redeem, delResult,
                  create, mail, jsvars>>
appvars == <<dbvars, calls, nextCall, user, uivars, deployment, redeem, delResult,
            create, mail, dash, fsvars>>
sqlvars == <<sqlvarsNoDash, dash>>

\* public.invitations: no row, and the row createGroup inserts for an email.
\* rows counts the rows of the email in the group.
NoInvitation == [exists |-> FALSE, redeemed_by_uid |-> NULL, redeemed_at |-> 0, rows |-> 0]
NewInvitation == [exists |-> TRUE, redeemed_by_uid |-> NULL, redeemed_at |-> 0, rows |-> 1]

\* public.groups before the host has created the group.
NoGroupRow == [exists |-> FALSE, members |-> << >>, deleted |-> FALSE]

NoCall == [pc |-> "free", uid |-> NULL, items |-> << >>, k |-> 0, src |-> NULL, waited |-> FALSE]
DoneCall == [pc |-> "done", uid |-> NULL, items |-> << >>, k |-> 0, src |-> NULL, waited |-> FALSE]
Results == {"ok", "conflict", "rls", "notnull"}

\* ------------------------------------------------ row level security
\* exists (select 1 from invitations i where i.group_id = ... and
\*         i.redeemed_by_uid = auth.uid())
HasRedeemedInvitation(u) ==
  \E e \in MemberEmails : invitations[e].exists /\ invitations[e].redeemed_by_uid = u

\* auth.jwt()->>'email': only the host account carries an email claim.
JwtEmail(u) == IF u = Host THEN HostEmail ELSE NULL

\* exists (select 1 from groups g where g.host_uid = auth.uid()
\*         and g.member_emails @> array[lower(auth.jwt()->>'email')])
HostIsMember(u) ==
  group.exists /\ u = Host /\ JwtEmail(u) \in Range(group.members)

\* policy submissions_create_member (with check)
submissions_create_member(u) == HasRedeemedInvitation(u) \/ HostIsMember(u)

\* The feedback table with an insert policy that lets every row pass.
feedback_create_unchecked(u) == TRUE

\* policy feedback_create_member (with check)
feedback_create_member(u) == HasRedeemedInvitation(u) \/ HostIsMember(u)

\* ------------------------------------------------------ submit_feedback
\* The rows the item loop has inserted so far / inserts in all.
ItemRow(u, items, i) ==
  [respondent_uid |-> u,
   recipient_email_lower |-> Lower(items[i].recipientEmailLower),
   strengths |-> items[i].strengths,
   improvements |-> items[i].improvements,
   score |-> items[i].score,
   idx |-> i]

CallRows(c) == {ItemRow(calls[c].uid, calls[c].items, i) : i \in 1..Len(calls[c].items)}

\* Another transaction holds an uncommitted submissions row with the same key.
UncommittedDuplicate(c) ==
  \E d \in CallIds \ {c} : calls[d].pc = "inserted" /\ calls[d].uid = calls[c].uid

\* The table without its unique (group_id, respondent_uid) constraint.
UniqueConflictDropped(u) == FALSE

\* unique (group_id, respondent_uid): a committed row with the same key.
UniqueConflict(u) == submissions[u] > 0

\* insert into submissions ... on conflict do nothing; get diagnostics;
\* raise exception 'You have already submitted feedback for this group'
TxInsertSubmission(c) ==
  /\ calls[c].pc = "start"
  /\ LET u == calls[c].uid IN
     \* the policy is checked before the unique index is consulted, once
     IF ~calls[c].waited /\ ~submissions_create_member(u)
       THEN calls' = [calls EXCEPT ![c].pc = "rls"]
     ELSE IF UniqueConflict(u)
       THEN calls' = [calls EXCEPT ![c].pc = "conflict"]
     ELSE IF UncommittedDuplicate(c)
       THEN /\ ~calls[c].waited
            /\ calls' = [calls EXCEPT ![c].waited = TRUE]
     ELSE calls' = [calls EXCEPT ![c].pc = "inserted", ![c].k = 1]
  /\ UNCHANGED <<dbvars, nextCall, user, uivars, rpcvars>>

\* The item loop with an exception handler that swallows a failing insert and
\* lets the function return: what was inserted so far is committed.
TxInsertFeedbackSwallow(c) ==
  /\ calls[c].pc = "inserted"
  /\ calls[c].k <= Len(calls[c].items)
  /\ LET u == calls[c].uid
         item == calls[c].items[calls[c].k] IN
     IF ~feedback_create_member(u) \/ item.recipientEmailLower = NULL
       THEN /\ calls' = [calls EXCEPT ![c].pc = "notnull"]
            /\ submissions' = [submissions EXCEPT ![u] = @ + 1]
            /\ feedback' = feedback \cup {ItemRow(u, calls[c].items, i) : i \in 1..(calls[c].k - 1)}
       ELSE /\ calls' = [calls EXCEPT ![c].k = @ + 1]
            /\ UNCHANGED <<submissions, feedback>>
  /\ UNCHANGED <<group, invitations, nextCall, user, uivars, rpcvars>>

\* One iteration of the item loop: insert into feedback (...) values (...)
TxInsertFeedback(c) ==
  /\ calls[c].pc = "inserted"
  /\ calls[c].k <= Len(calls[c].items)
  /\ LET u == calls[c].uid
         item == calls[c].items[calls[c].k] IN
     IF ~feedback_create_member(u)
       THEN calls' = [calls EXCEPT ![c].pc = "rls"]
     ELSE IF item.recipientEmailLower = NULL
       THEN calls' = [calls EXCEPT ![c].pc = "notnull"]
     ELSE calls' = [calls EXCEPT ![c].k = @ + 1]
  /\ UNCHANGED <<dbvars, nextCall, user, uivars, rpcvars>>

\* The function returns and the transaction commits.
TxCommit(c) ==
  /\ calls[c].pc = "inserted"
  /\ calls[c].k > Len(calls[c].items)
  /\ submissions' = [submissions EXCEPT ![calls[c].uid] = @ + 1]
  /\ feedback' = feedback \cup CallRows(c)
  /\ calls' = [calls EXCEPT ![c].pc = "ok"]
  /\ UNCHANGED <<group, invitations, nextCall, user, uivars, rpcvars>>

\* ------------------------------------------------------ redeem_invitation
\* The temporary password minted for an invitation (generateTempPassword):
\* each invitation has its own.
TempPassword(e) == e

Max(S) == CHOOSE x \in S : \A y \in S : y <= x

\* now(): later than every redeemed_at stored so far (0 stands for null).
Now == 1 + Max({invitations[e].redeemed_at : e \in MemberEmails})

\* patch.sql redeem_invitation ("latest session wins"): the invitations after
\* the call, or the invitations unchanged when no row matches.
redeem_found(e, pw) ==
  Lower(e) \in MemberEmails /\ invitations[Lower(e)].exists /\ TempPassword(Lower(e)) = pw

redeem_invitation(u, e, pw) ==
  IF ~redeem_found(e, pw) THEN invitations
  ELSE IF invitations[Lower(e)].redeemed_by_uid = NULL \/ invitations[Lower(e)].redeemed_by_uid # u
    THEN [invitations EXCEPT ![Lower(e)].redeemed_by_uid = u, ![Lower(e)].redeemed_at = Now]
  ELSE invitations

\* AuthProvider.loginWithInvite: a fresh anonymous user redeems the invitation;
\* a failed redemption signs the anonymous user out for good.
LoginWithInvite(u, e, pw) ==
  /\ u \in Sessions
  /\ user[u] = ""
  /\ invitations' = redeem_invitation(u, e, pw)
  /\ user' = [user EXCEPT ![u] = IF redeem_found(e, pw) THEN Lower(e) ELSE "out"]
  /\ UNCHANGED <<group, submissions, feedback, calls, nextCall, uivars, rpcvars>>

\* -------------------------------------- redeem_invitation as an endpoint
\* The function is granted to every authenticated user.  A call is a
\* transaction of two statements under read committed: the select into inv,
\* then, when the row is to be bound, the update.  The record of a caller holds
\* the arguments, inv as selected and what the call returned.
NoRedeem == [pc |-> "idle", email |-> NULL, pw |-> NULL, by |-> NULL, at |-> 0,
             result |-> "none", updated |-> FALSE]

\* The condition of the update with every binding overwritten.
NeedsUpdateAlways(u, by) == TRUE

\* The condition of the update of schema.sql under either deployment.
NeedsUpdateWhenUnbound(u, by) == by = NULL

\* schema.sql: if inv.redeemed_by_uid is null
\* patch.sql:  if inv.redeemed_by_uid is null or inv.redeemed_by_uid <> auth.uid()
NeedsUpdate(u, by) ==
  IF deployment = "schema" THEN by = NULL ELSE (by = NULL \/ by # u)

\* schema.sql: if inv.redeemed_by_uid is not null and inv.redeemed_by_uid <>
\* auth.uid() then raise exception 'Invitation already redeemed'
AlreadyRedeemed(u, by) == deployment = "schema" /\ by # NULL /\ by # u

\* select * into inv ... ; if not found ...; (strict) if ... already redeemed
RedeemSelect(u, e, pw) ==
  /\ redeem[u].pc # "selected"
  /\ LET inv == invitations[Lower(e)] IN
     IF ~redeem_found(e, pw)
       THEN redeem' = [redeem EXCEPT ![u] =
              [pc |-> "returned", email |-> Lower(e), pw |-> pw, by |-> NULL, at |-> 0,
               result |-> "invalid", updated |-> FALSE]]
     ELSE IF AlreadyRedeemed(u, inv.redeemed_by_uid)
       THEN redeem' = [redeem EXCEPT ![u] =
              [pc |-> "returned", email |-> Lower(e), pw |-> pw, by |-> inv.redeemed_by_uid,
               at |-> inv.redeemed_at, result |-> "already", updated |-> FALSE]]
     ELSE IF NeedsUpdate(u, inv.redeemed_by_uid)
       THEN redeem' = [redeem EXCEPT ![u] =
              [pc |-> "selected", email |-> Lower(e), pw |-> pw, by |-> inv.redeemed_by_uid,
               at |-> inv.redeemed_at, result |-> "none", updated |-> FALSE]]
     ELSE redeem' = [redeem EXCEPT ![u] =
              [pc |-> "returned", email |-> Lower(e), pw |-> pw, by |-> inv.redeemed_by_uid,
               at |-> inv.redeemed_at, result |-> "ok", updated |-> FALSE]]
  /\ redeem'[u] # redeem[u]
  /\ UNCHANGED <<dbvars, calls, nextCall, user, uivars, deployment, delResult, create, mail, dash, fsvars, jsvars>>

\* update public.invitations set redeemed_by_uid = auth.uid(), redeemed_at =
\* now() where id = inv.id returning * into inv; return inv
RedeemUpdate(u) ==
  /\ redeem[u].pc = "selected"
  /\ LET e == redeem[u].email IN
     IF invitations[e].exists
       THEN /\ Now <= MaxRedeems
            /\ invitations' = [invitations EXCEPT ![e].redeemed_by_uid = u, ![e].redeemed_at = Now]
            /\ redeem' = [redeem EXCEPT ![u] =
                  [pc |-> "returned", email |-> e, pw |-> redeem[u].pw, by |-> u, at |-> Now,
                   result |-> "ok", updated |-> TRUE]]
       ELSE /\ UNCHANGED invitations
            /\ redeem' = [redeem EXCEPT ![u] =
                  [pc |-> "returned", email |-> e, pw |-> redeem[u].pw, by |-> NULL, at |-> 0,
                   result |-> "ok", updated |-> FALSE]]
  /\ UNCHANGED <<group, submissions, feedback, calls, nextCall, user, uivars, deployment, delResult, create, mail, dash, fsvars, jsvars>>

SignedIn(u) == user[u] \notin {"", "out"}

\* ------------------------------------------------------------ createGroup
HasDuplicates(ms) == Cardinality(Range(ms)) # Len(ms)

\* db createGroup: validation, then the groups row (host first) and one
\* invitation per member.
CreateGroup(ms) ==
  /\ ~group.exists
  /\ ~group.deleted
  /\ HostEmail \notin Range(ms)
  /\ ~HasDuplicates(ms)
  /\ group' = [exists |-> TRUE, members |-> <<HostEmail>> \o ms, deleted |-> FALSE]
  /\ invitations' = [e \in MemberEmails |->
                       IF e \in Range(ms) THEN NewInvitation
                       ELSE invitations[e]]
  /\ UNCHANGED <<submissions, feedback, calls, nextCall, user, uivars, rpcvars>>

\* --------------------------------------- createGroup on what the host typed
NoCreate == [pc |-> "idle", name |-> "", members |-> << >>, error |-> NULL]

\* trim(): the names of the model have no blanks around them except " ".
Trim(s) == IF s = " " THEN "" ELSE s

\* normalizedMembers: each email normalized, entries without an email dropped.
normalizedMembers(ms) ==
  SelectSeq([i \in 1..Len(ms) |-> Lower(ms[i])], LAMBDA e : e # "")

\* createGroup, its checks: the error it throws, NULL when it goes on.
createGroupError(name, ms) ==
  IF Trim(name) = "" THEN "Group name is required"
  ELSE IF HostEmail \in Range(normalizedMembers(ms))
    THEN "You don't need to add yourself as a member"
  ELSE IF HasDuplicates(normalizedMembers(ms))
    THEN "Each member must have a unique email"
  ELSE NULL

\* The rows an insert of one invitation per listed member leaves.
InsertInvitations(nm) ==
  [e \in MemberEmails |->
     IF e \in Range(nm)
       THEN IF invitations[e].exists
              THEN [invitations[e] EXCEPT !.rows = @ + 1]
              ELSE NewInvitation
       ELSE invitations[e]]

\* createGroup up to the insert into groups: the checks, then the groups row
\* with the host first.  Without members the invitations insert is skipped.
CreateGroupInsert(name, ms) ==
  /\ create.pc \in {"idle", "failed"}
  /\ ~group.exists
  /\ ~group.deleted
  /\ IF createGroupError(name, ms) # NULL
       THEN /\ create' = [pc |-> "failed", name |-> name, members |-> ms,
                          error |-> createGroupError(name, ms)]
            /\ UNCHANGED group
       ELSE /\ group' = [exists |-> TRUE,
                         members |-> <<HostEmail>> \o normalizedMembers(ms),
                         deleted |-> FALSE]
            /\ create' = [pc |-> IF normalizedMembers(ms) = << >> THEN "done" ELSE "group",
                          name |-> name, members |-> ms, error |-> NULL]
  /\ create' # create
  /\ UNCHANGED <<invitations, submissions, feedback, calls, nextCall, user, uivars,
                 deployment, redeem, delResult, mail, dash, fsvars, jsvars>>

\* createGroup, its insert into invitations: it succeeds, or the request
\* fails and throwIfError throws.
CreateInvitesInsert(ok) ==
  /\ create.pc = "group"
  /\ IF ok
       THEN /\ invitations' = InsertInvitations(normalizedMembers(create.members))
            /\ create' = [create EXCEPT !.pc = "done"]
       ELSE /\ create' = [create EXCEPT !.pc = "failed", !.error = "insert failed"]
            /\ UNCHANGED invitations
  /\ UNCHANGED <<group, submissions, feedback, calls, nextCall, user, uivars,
                 deployment, redeem, delResult, mail, dash, fsvars, jsvars>>

\* db createGroupInvitations called by the host with the host's own email.
createGroupInvitations(ms) ==
  /\ group.exists
  /\ create.pc # "group"
  /\ HostEmail \notin Range(normalizedMembers(ms))
  /\ ~HasDuplicates(normalizedMembers(ms))
  /\ normalizedMembers(ms) # << >>
  /\ \A e \in Range(normalizedMembers(ms)) : invitations[e].rows < MaxInviteRows
  /\ invitations' = InsertInvitations(normalizedMembers(ms))
  /\ UNCHANGED <<group, submissions, feedback, calls, nextCall, user, uivars, rpcvars>>

\* ------------------------------------------------------ select policies
\* groups_read_host_or_member
groups_read(u) == group.exists /\ (u = Host \/ HasRedeemedInvitation(u))

\* submissions_read_host_or_member
submissions_read(u) == group.exists /\ (u = Host \/ HasRedeemedInvitation(u))

\* public.profiles: only the host signed up with a profile row.
ProfileEmail(u) == IF u = Host THEN HostEmail ELSE NULL

\* feedback_read_host (schema.sql; patch.sql leaves it in place)
feedback_read_host(u, r) == group.exists /\ u = Host

\* feedback_read_recipient (patch.sql)
feedback_read_recipient(u, r) ==
  \/ \E e \in MemberEmails : /\ invitations[e].exists
                             /\ invitations[e].redeemed_by_uid = u
                             /\ e = r.recipient_email_lower
  \/ (ProfileEmail(u) # NULL /\ ProfileEmail(u) = r.recipient_email_lower)

\* The feedback rows a select by u returns.
FeedbackReadable(u) ==
  {r \in feedback : SignedIn(u) /\ (feedback_read_host(u, r) \/ feedback_read_recipient(u, r))}

\* db listGroupResponses: the respondent uids of the rows u may read.
listGroupResponses(u) == IF submissions_read(u) THEN {r \in Uids : submissions[r] > 0} ELSE {}

\* db listGroupFeedbackForRecipient + mapFeedbackRow
listGroupFeedbackForRecipient(u, e) ==
  {r \in FeedbackReadable(u) : r.recipient_email_lower = Lower(e)}

\* ------------------------------------------------------------- Dashboard
NoGroup == [loaded |-> FALSE, members |-> << >>]
NoStatus == [loading |-> TRUE, completed |-> 0, total |-> 0, userHasSubmitted |-> FALSE,
             userIsParticipant |-> FALSE, isComplete |-> FALSE]
NoSurvey == [open |-> FALSE, responses |-> << >>, idx |-> 0, submitting |-> FALSE]
NoPdf == {}

\* GroupCard.loadStatus
loadStatus(u, members) ==
  LET respondents == listGroupResponses(u)
      total == Len(members)
      completed == Cardinality(respondents) IN
  [loading |-> FALSE,
   completed |-> completed,
   total |-> total,
   userHasSubmitted |-> u \in respondents,
   userIsParticipant |-> user[u] \in Range(members),
   isComplete |-> total > 0 /\ completed = total]

\* No overlay (survey, feedback modal) covers the dashboard of u.
DashboardShown(u) == SignedIn(u) /\ ~survey[u].open

\* What the dashboard of u holds after a load of the groups and the status
\* reload of the group card that follows it.  A group that is no longer listed
\* unmounts its card.
LoadedGroup(u, g) ==
  IF g.exists /\ (u = Host \/ HasRedeemedInvitation(u))
    THEN [loaded |-> TRUE, members |-> g.members] ELSE NoGroup

LoadedStatus(u, g) ==
  IF LoadedGroup(u, g).loaded THEN loadStatus(u, g.members) ELSE NoStatus

\* Dashboard load / refreshGroups: the hosted and the member query, merged,
\* then the loadStatus effect of the card.
RefreshGroups(u) ==
  /\ DashboardShown(u)
  /\ cgroup' = [cgroup EXCEPT ![u] = LoadedGroup(u, group)]
  /\ status' = [status EXCEPT ![u] = LoadedStatus(u, group)]
  /\ <<cgroup'[u], status'[u]>> # <<cgroup[u], status[u]>>
  /\ UNCHANGED <<dbvars, calls, nextCall, user, survey, pdf, rpcvars>>

\* ---------------------------------------------------------- SurveyScreen
\* recipients = group.members without the user
Recipients(u) == FilterOut(cgroup[u].members, user[u])

InitialResponses(u) ==
  [i \in 1..Len(Recipients(u)) |->
     [recipientEmailLower |-> Lower(Recipients(u)[i]),
      strengths |-> "", improvements |-> "", score |-> 0]]

\* GroupCard.getActionButton: "Give Feedback"
OpenSurvey(u) ==
  /\ DashboardShown(u)
  /\ cgroup[u].loaded
  /\ ~status[u].isComplete
  /\ ~status[u].loading
  /\ status[u].userIsParticipant
  /\ ~status[u].userHasSubmitted
  /\ Cardinality({v \in Uids : survey[v].open}) < MaxOpenSurveys
  /\ survey' = [survey EXCEPT ![u] =
                  [open |-> TRUE, responses |-> InitialResponses(u), idx |-> 1,
                   submitting |-> FALSE]]
  /\ UNCHANGED <<dbvars, calls, nextCall, user, cgroup, status, pdf, rpcvars>>

totalPoints(u) == Len(Recipients(u)) * 100
remainingPoints(u) == totalPoints(u) - SumScores(survey[u].responses)

canProceed(u) ==
  LET r == survey[u].responses[survey[u].idx] IN
  Trim(r.strengths) # "" /\ Trim(r.improvements) # "" /\ r.score > 0

\* SurveyScreen.updateResponse, once for every field the edit touches:
\* updated[currentMemberIdx] = { ...updated[currentMemberIdx], [field]: value }
ApplyEdit(r, edit) == [f \in DOMAIN r |-> IF f \in DOMAIN edit THEN edit[f] ELSE r[f]]

UpdateResponse(u, edit) ==
  /\ survey[u].open
  /\ Len(Recipients(u)) > 0
  /\ ~survey[u].submitting
  /\ ApplyEdit(survey[u].responses[survey[u].idx], edit) # survey[u].responses[survey[u].idx]
  /\ survey' = [survey EXCEPT ![u].responses[survey[u].idx] = ApplyEdit(@, edit)]
  /\ UNCHANGED <<dbvars, calls, nextCall, user, cgroup, status, pdf, rpcvars>>

\* A Continue button that is never disabled.
HandleNextUngated(u) ==
  /\ survey[u].open
  /\ Len(Recipients(u)) > 0
  /\ survey[u].idx < Len(Recipients(u))
  /\ survey' = [survey EXCEPT ![u].idx = @ + 1]
  /\ UNCHANGED <<dbvars, calls, nextCall, user, cgroup, status, pdf, rpcvars>>

\* SurveyScreen.handleNext (the Continue button is disabled unless canProceed)
HandleNext(u) ==
  /\ survey[u].open
  /\ Len(Recipients(u)) > 0
  /\ survey[u].idx < Len(Recipients(u))
  /\ canProceed(u)
  /\ survey' = [survey EXCEPT ![u].idx = @ + 1]
  /\ UNCHANGED <<dbvars, calls, nextCall, user, cgroup, status, pdf, rpcvars>>

\* SurveyScreen.handleBack
HandleBack(u) ==
  /\ survey[u].open
  /\ survey[u].idx > 1
  /\ survey' = [survey EXCEPT ![u].idx = @ - 1]
  /\ UNCHANGED <<dbvars, calls, nextCall, user, cgroup, status, pdf, rpcvars>>

IssueCall(u, items, src) ==
  /\ nextCall < MaxCalls
  /\ nextCall' = nextCall + 1
  /\ calls' = [calls EXCEPT ![nextCall + 1] =
                 [pc |-> "start", uid |-> u, items |-> items, k |-> 0, src |-> src,
                  waited |-> FALSE]]

\* The Submit Feedback button is shown (last recipient) and not disabled.
SubmitEnabled(u) ==
  /\ survey[u].open
  /\ Len(Recipients(u)) > 0
  /\ survey[u].idx = Len(Recipients(u))
  /\ ~survey[u].submitting
  /\ canProceed(u)
  /\ remainingPoints(u) = 0

\* SurveyScreen.handleSubmit up to the submit_feedback call
HandleSubmit(u) ==
  /\ survey[u].open
  /\ Len(Recipients(u)) > 0
  /\ survey[u].idx = Len(Recipients(u))
  /\ ~survey[u].submitting
  /\ canProceed(u)
  /\ user[u] # ""
  /\ remainingPoints(u) = 0
  /\ IssueCall(u, survey[u].responses, "ui")
  /\ survey' = [survey EXCEPT ![u].submitting = TRUE]
  /\ UNCHANGED <<dbvars, user, cgroup, status, pdf, rpcvars>>

\* SurveyScreen "Mark Complete" (nobody else on the roster)
MarkComplete(u) ==
  /\ survey[u].open
  /\ Len(Recipients(u)) = 0
  /\ ~survey[u].submitting
  /\ IssueCall(u, << >>, "ui")
  /\ survey' = [survey EXCEPT ![u].submitting = TRUE]
  /\ UNCHANGED <<dbvars, user, cgroup, status, pdf, rpcvars>>

\* SurveyScreen "Back": onComplete closes the survey without a submission,
\* reloads the status and refreshes the groups.
CloseSurvey(u) ==
  /\ survey[u].open
  /\ ~survey[u].submitting
  /\ survey' = [survey EXCEPT ![u] = NoSurvey]
  /\ cgroup' = [cgroup EXCEPT ![u] = LoadedGroup(u, group)]
  /\ status' = [status EXCEPT ![u] = LoadedStatus(u, group)]
  /\ UNCHANGED <<dbvars, calls, nextCall, user, pdf, rpcvars>>

\* The call answers.  handleSubmit: on success onComplete closes the survey,
\* reloads the status and refreshes the groups; an error is alerted and the
\* form stays.
SubmitReturn(c) ==
  /\ calls[c].pc \in Results
  /\ calls' = [calls EXCEPT ![c] = DoneCall]
  /\ IF calls[c].src = "ui"
       THEN LET u == calls[c].uid IN
            IF calls[c].pc = "ok"
              THEN /\ survey' = [survey EXCEPT ![u] = NoSurvey]
                   /\ cgroup' = [cgroup EXCEPT ![u] = LoadedGroup(u, group)]
                   /\ status' = [status EXCEPT ![u] = LoadedStatus(u, group)]
              ELSE /\ survey' = [survey EXCEPT ![u].submitting = FALSE]
                   /\ UNCHANGED <<cgroup, status>>
       ELSE UNCHANGED <<survey, cgroup, status>>
  /\ UNCHANGED <<dbvars, nextCall, user, pdf, rpcvars>>

\* A signed-in session calls the submit_feedback endpoint itself (a second
\* tab, a script): the function is granted to every authenticated user.
ApiItem(r, s) == [recipientEmailLower |-> r, strengths |-> "t", improvements |-> "t", score |-> s]
ApiItemLists == {<<ApiItem("A", 50)>>, <<ApiItem(Outsider, 50), ApiItem(NULL, 50)>>}

ApiSubmit(u, items) ==
  /\ SignedIn(u)
  /\ IssueCall(u, items, "api")
  /\ UNCHANGED <<dbvars, user, uivars, rpcvars>>

\* ------------------------------------------------------ updateGroupMembers
\* db updateGroupMembers under policy groups_update_delete_host.
updateGroupMembers(u, members) ==
  IF group.exists /\ u = Host THEN [group EXCEPT !.members = members] ELSE group

\* A remove-self handler that also deleted what the removed identity stored.
RemoveSelfPurging(u) ==
  /\ u = Host
  /\ DashboardShown(u)
  /\ cgroup[u].loaded
  /\ status[u].userIsParticipant
  /\ group.exists
  /\ group' = updateGroupMembers(u, FilterOut(cgroup[u].members, user[u]))
  /\ submissions' = [submissions EXCEPT ![u] = 0]
  /\ feedback' = {r \in feedback : r.respondent_uid # u}
  /\ cgroup' = [cgroup EXCEPT ![u] = LoadedGroup(u, group')]
  /\ status' = [status EXCEPT ![u] = LoadedStatus(u, group')]
  /\ UNCHANGED <<invitations, calls, nextCall, user, survey, pdf, rpcvars>>

\* GroupCard "Remove me from members": updateGroupMembers with the remaining
\* members, then the status reload and the group refresh it triggers.
RemoveSelf(u) ==
  /\ u = Host
  /\ DashboardShown(u)
  /\ cgroup[u].loaded
  /\ status[u].userIsParticipant
  /\ group.exists
  /\ group' = updateGroupMembers(u, FilterOut(cgroup[u].members, user[u]))
  /\ cgroup' = [cgroup EXCEPT ![u] = LoadedGroup(u, group')]
  /\ status' = [status EXCEPT ![u] = LoadedStatus(u, group')]
  /\ UNCHANGED <<invitations, submissions, feedback, calls, nextCall, user, survey, pdf, rpcvars>>

\* db updateGroupMembers called by the host with a member list.
UpdateMembers(ms) ==
  /\ group.exists
  /\ create.pc # "group"
  /\ group' = updateGroupMembers(Host, normalizedMembers(ms))
  /\ group' # group
  /\ UNCHANGED <<invitations, submissions, feedback, calls, nextCall, user, uivars, rpcvars>>

\* ------------------------------------------------------ deleteGroupCascade
\* policy groups_delete_host: the rows a delete by u may remove.
groups_delete_host(u) == group.exists /\ u = Host

\* A submit_feedback transaction that has inserted rows referencing the group
\* holds a key-share lock on the groups row until it ends: a delete of the row
\* waits for it.
GroupRowLocked == \E c \in CallIds : calls[c].pc = "inserted"

\* db deleteGroupCascade: delete from groups where id = ...; the foreign keys
\* of invitations, submissions and feedback are "on delete cascade".  A delete
\* that the policy hides the row from removes nothing and reports no error.
deleteGroupCascade(u) ==
  /\ IF groups_delete_host(u)
       THEN /\ ~GroupRowLocked
            /\ group' = [exists |-> FALSE, members |-> << >>, deleted |-> TRUE]
            /\ invitations' = [e \in MemberEmails |->
                                 NoInvitation]
            /\ submissions' = [v \in Uids |-> 0]
            /\ feedback' = {}
       ELSE UNCHANGED dbvars
  /\ delResult' = [delResult EXCEPT ![u] = "ok"]

\* A signed-in session calls the delete on the groups table itself.
ApiDelete(u) ==
  /\ SignedIn(u)
  /\ deleteGroupCascade(u)
  /\ <<dbvars, delResult>>' # <<dbvars, delResult>>
  /\ UNCHANGED <<calls, nextCall, user, uivars, deployment, redeem, create, mail, dash, fsvars, jsvars>>

\* GroupCard delete button (host, group not complete) and Dashboard onDelete:
\* deleteGroupCascade, then refreshGroups.
DeleteGroup(u) ==
  /\ u = Host
  /\ DashboardShown(u)
  /\ cgroup[u].loaded
  /\ ~status[u].isComplete
  /\ deleteGroupCascade(u)
  /\ cgroup' = [cgroup EXCEPT ![u] = LoadedGroup(u, group')]
  /\ status' = [status EXCEPT ![u] = LoadedStatus(u, group')]
  /\ UNCHANGED <<calls, nextCall, user, survey, pdf, deployment, redeem, create, mail, dash, fsvars, jsvars>>

\* ------------------------------------------------ Firestore data module
NoBatch == [pc |-> "idle", invites |-> {}, responses |-> [u \in Uids |-> 0]]

FsInit ==
  /\ fsGroup = "none"
  /\ fsInvitations = [e \in FsEmails |-> [exists |-> FALSE, redeemedByUid |-> NULL]]
  /\ fsResponses = [u \in Uids |-> 0]
  /\ fsCreate = << >>
  /\ fsBatch = NoBatch
  /\ fsRedeem = [u \in Sessions |-> NULL]

\* createGroup as far as the group document: the checks, then setDoc(groupRef).
FsCreateGroup(ms) ==
  /\ fsGroup = "none"
  /\ Len(ms) >= 3
  /\ ~HasDuplicates(ms)
  /\ fsGroup' = "live"
  /\ fsCreate' = ms
  /\ UNCHANGED <<fsInvitations, fsResponses, fsBatch, fsRedeem, sqlvars>>

\* createGroup, one turn of its loop: setDoc of the next invitation.
FsCreateInvite ==
  /\ fsCreate # << >>
  /\ fsInvitations' = [fsInvitations EXCEPT ![Head(fsCreate)] =
                          [exists |-> TRUE, redeemedByUid |-> NULL]]
  /\ fsCreate' = Tail(fsCreate)
  /\ UNCHANGED <<fsGroup, fsResponses, fsBatch, fsRedeem, sqlvars>>

\* submitGroupResponse: one addDoc to "responses".  The survey that calls it
\* was opened on a group its dashboard had listed.
FsSubmitGroupResponse(u) ==
  /\ fsGroup = "live"
  /\ fsCreate = << >>
  /\ fsResponses[u] < MaxResponses
  /\ fsResponses' = [fsResponses EXCEPT ![u] = @ + 1]
  /\ UNCHANGED <<fsGroup, fsInvitations, fsCreate, fsBatch, fsRedeem, sqlvars>>

\* redeemInvitationForUser up to its updateDoc: the query, the password match
\* and the two checks of redeemedByUid.
FsRedeemSelect(u, e, pw) ==
  /\ fsRedeem[u] = NULL
  /\ fsInvitations[e].exists
  /\ pw = TempPassword(e)
  /\ fsInvitations[e].redeemedByUid = NULL
  /\ fsRedeem' = [fsRedeem EXCEPT ![u] = e]
  /\ UNCHANGED <<fsGroup, fsInvitations, fsResponses, fsCreate, fsBatch, sqlvars>>

\* redeemInvitationForUser, its updateDoc: it fails on a document that is gone.
FsRedeemUpdate(u) ==
  /\ fsRedeem[u] # NULL
  /\ fsInvitations' =
       IF fsInvitations[fsRedeem[u]].exists
         THEN [fsInvitations EXCEPT ![fsRedeem[u]].redeemedByUid = u]
         ELSE fsInvitations
  /\ fsRedeem' = [fsRedeem EXCEPT ![u] = NULL]
  /\ UNCHANGED <<fsGroup, fsResponses, fsCreate, fsBatch, sqlvars>>

\* deleteGroupCascade (Firestore): batch.delete of the group, then the query
\* of the group's invitations, each put into the batch.
FsDeleteInvitesQuery ==
  /\ fsGroup = "live"
  /\ fsCreate = << >>
  /\ fsBatch.pc = "idle"
  /\ fsBatch' = [pc |-> "invites",
                  invites |-> {e \in FsEmails : fsInvitations[e].exists},
                  responses |-> [u \in Uids |-> 0]]
  /\ UNCHANGED <<fsGroup, fsInvitations, fsResponses, fsCreate, fsRedeem, sqlvars>>

\* deleteGroupCascade (Firestore): the query of the group's responses, each
\* put into the batch.
FsDeleteResponsesQuery ==
  /\ fsBatch.pc = "invites"
  /\ fsBatch' = [fsBatch EXCEPT !.pc = "responses", !.responses = fsResponses]
  /\ UNCHANGED <<fsGroup, fsInvitations, fsResponses, fsCreate, fsRedeem, sqlvars>>

\* deleteGroupCascade (Firestore): batch.commit deletes, at once, the group
\* and the documents the two queries returned.
FsDeleteCommit ==
  /\ fsBatch.pc = "responses"
  /\ fsGroup' = "gone"
  /\ fsInvitations' = [e \in FsEmails |->
                          IF e \in fsBatch.invites
                            THEN [exists |-> FALSE, redeemedByUid |-> NULL]
                            ELSE fsInvitations[e]]
  /\ fsResponses' = [u \in Uids |-> fsResponses[u] - fsBatch.responses[u]]
  /\ fsBatch' = [fsBatch EXCEPT !.pc = "done"]
  /\ UNCHANGED <<fsCreate, fsRedeem, sqlvars>>

\* ------------------------------------------------- send-invites function
\* Nothing requested yet, with the given email provider in the environment.
NoMail(p) == [provider |-> p, token |-> "", groupId |-> "", status |-> 0,
              read |-> FALSE, sent |-> {}, outbox |-> {}]

\* supabaseAdmin.auth.getUser(token): the user of a session token.
getUser(tok) == IF tok \in Uids /\ SignedIn(tok) THEN tok ELSE NULL

\* The groups row with the given id, selected with the service role.
GroupFound(gid) == gid = "g" /\ group.exists

\* Every user counts as the host.
IsHostAlways(uid) == TRUE

\* group.host_uid !== user.id
IsHost(uid) == uid = Host

\* inviteList: the invitations of the group, cut down to the emails of the
\* request when it lists any.
inviteList(filter) ==
  {e \in MemberEmails : invitations[e].exists /\ (filter = {} \/ e \in filter)}

\* What the handler answers and does: status, whether it read the invitations
\* and the mails that went out (those of inviteList whose send did not fail).
sendInvites(tok, gid, filter, ok) ==
  IF tok = "" THEN [status |-> 401, read |-> FALSE, sent |-> {}]
  ELSE IF gid = "" THEN [status |-> 400, read |-> FALSE, sent |-> {}]
  ELSE IF mail.provider = "none" THEN [status |-> 400, read |-> FALSE, sent |-> {}]
  ELSE IF getUser(tok) = NULL THEN [status |-> 401, read |-> FALSE, sent |-> {}]
  ELSE IF ~GroupFound(gid) THEN [status |-> 400, read |-> FALSE, sent |-> {}]
  ELSE IF ~IsHost(getUser(tok)) THEN [status |-> 403, read |-> FALSE, sent |-> {}]
  ELSE [status |-> 200, read |-> TRUE, sent |-> inviteList(filter) \cap ok]

\* exports.handler: one POST request to the function.
SendInvites(tok, gid, filter, ok) ==
  /\ ok \subseteq inviteList(filter)
  /\ mail' = [provider |-> mail.provider, token |-> tok, groupId |-> gid,
               status |-> sendInvites(tok, gid, filter, ok).status,
               read |-> sendInvites(tok, gid, filter, ok).read,
               sent |-> sendInvites(tok, gid, filter, ok).sent,
               outbox |-> mail.outbox \cup sendInvites(tok, gid, filter, ok).sent]
  /\ mail' # mail
  /\ UNCHANGED <<dbvars, calls, nextCall, user, uivars, deployment, redeem, delResult,
                 create, dash, fsvars, jsvars>>

\* ------------------------------------------- Dashboard group list loading
\* The lists a query can answer with: group rows, each id once.
QueryLists == {s \in UNION {[1..n -> ListedIds] : n \in 0..Cardinality(ListedIds)} :
                 Cardinality(Range(s)) = Len(s)}

\* How a query promise settles: rejected (an error or the timeout) or
\* fulfilled with a list.
Pending == [status |-> "pending", value |-> << >>]
Rejected == [status |-> "rejected", value |-> << >>]
Settled == {Rejected} \cup {[status |-> "fulfilled", value |-> l] : l \in QueryLists}

\* No load started before the latest one is still in flight.
NoEarlier == [pc |-> "idle", hosted |-> Pending, member |-> Pending]

\* Dashboard as mounted: its first load has issued the two queries.  running
\* is the position of the load started last (between its queries and its
\* setGroups), hosted and member are its promises; earlier is a load started
\* before it whose continuation has not run yet.
FirstLoad == [groups |-> << >>, groupsError |-> "", loadingGroups |-> TRUE,
              running |-> TRUE, hosted |-> Pending, member |-> Pending,
              earlier |-> NoEarlier]

\* load / refreshGroups up to the two queries; a load still in flight goes on
\* on its own.
NewLoad ==
  [dash EXCEPT !.groupsError = "", !.loadingGroups = TRUE, !.running = TRUE,
               !.hosted = Pending, !.member = Pending,
               !.earlier = IF dash.running
                             THEN [pc |-> "running", hosted |-> dash.hosted,
                                   member |-> dash.member]
                             ELSE dash.earlier]

\* Append to merged the rows of res whose id is not in it yet.
RECURSIVE AppendUnseen(_, _)
AppendUnseen(merged, res) ==
  IF res = << >> THEN merged
  ELSE AppendUnseen(IF Head(res) \in Range(merged) THEN merged
                    ELSE Append(merged, Head(res)), Tail(res))

\* merged: the fulfilled results, hosted first, each id once.
Merged(hostedRes, memberRes) == AppendUnseen(hostedRes.value, memberRes.value)

\* Both promises of a load have settled and its continuation after `await
\* Promise.allSettled` is queued: it runs before any other event is handled.
ContinuationReady ==
  \/ dash.running /\ dash.hosted # Pending /\ dash.member # Pending
  \/ /\ dash.earlier.pc = "running"
     /\ dash.earlier.hosted # Pending /\ dash.earlier.member # Pending

\* refreshGroups up to the two queries (the Refresh button is disabled while
\* loadingGroups).
RefreshStart ==
  /\ ~dash.loadingGroups
  /\ ~ContinuationReady
  /\ dash' = NewLoad
  /\ UNCHANGED <<sqlvarsNoDash, fsvars>>

\* refreshGroups called by onDelete, onRefresh or onCreated while a load is
\* in flight: none of them looks at loadingGroups.  Two loads at most are
\* followed at a time.
RefreshAgain ==
  /\ dash.running \/ dash.earlier.pc = "running"
  /\ ~(dash.running /\ dash.earlier.pc = "running")
  /\ ~ContinuationReady
  /\ dash' = NewLoad
  /\ UNCHANGED <<sqlvarsNoDash, fsvars>>

\* hostedPromise settles.
HostedSettles(res) ==
  /\ dash.running
  /\ ~ContinuationReady
  /\ dash.hosted = Pending
  /\ dash' = [dash EXCEPT !.hosted = res]
  /\ UNCHANGED <<sqlvarsNoDash, fsvars>>

\* memberPromise settles.
MemberSettles(res) ==
  /\ dash.running
  /\ ~ContinuationReady
  /\ dash.member = Pending
  /\ dash' = [dash EXCEPT !.member = res]
  /\ UNCHANGED <<sqlvarsNoDash, fsvars>>

\* load / refreshGroups after Promise.allSettled: the merge, then setGroups,
\* or the throw and setGroupsError; finally setLoadingGroups(false).
LoadFinish ==
  /\ dash.running
  /\ dash.hosted # Pending
  /\ dash.member # Pending
  /\ dash' = IF /\ Merged(dash.hosted, dash.member) = << >>
                /\ dash.hosted = Rejected
                /\ dash.member = Rejected
               THEN [dash EXCEPT !.groupsError = "Failed to load groups",
                                 !.loadingGroups = FALSE, !.running = FALSE]
               ELSE [dash EXCEPT !.groups = Merged(dash.hosted, dash.member),
                                 !.loadingGroups = FALSE, !.running = FALSE]
  /\ UNCHANGED <<sqlvarsNoDash, fsvars>>

\* hostedPromise of the earlier load settles.
EarlierHostedSettles(res) ==
  /\ dash.earlier.pc = "running"
  /\ ~ContinuationReady
  /\ dash.earlier.hosted = Pending
  /\ dash' = [dash EXCEPT !.earlier.hosted = res]
  /\ UNCHANGED <<sqlvarsNoDash, fsvars>>

\* memberPromise of the earlier load settles.
EarlierMemberSettles(res) ==
  /\ dash.earlier.pc = "running"
  /\ ~ContinuationReady
  /\ dash.earlier.member = Pending
  /\ dash' = [dash EXCEPT !.earlier.member = res]
  /\ UNCHANGED <<sqlvarsNoDash, fsvars>>

\* The continuation of the earlier load: the same merge, setGroups or
\* setGroupsError, and setLoadingGroups(false).
EarlierFinish ==
  /\ dash.earlier.pc = "running"
  /\ dash.earlier.hosted # Pending
  /\ dash.earlier.member # Pending
  /\ dash' = IF /\ Merged(dash.earlier.hosted, dash.earlier.member) = << >>
                /\ dash.earlier.hosted = Rejected
                /\ dash.earlier.member = Rejected
               THEN [dash EXCEPT !.groupsError = "Failed to load groups",
                                 !.loadingGroups = FALSE, !.earlier = NoEarlier]
               ELSE [dash EXCEPT !.groups = Merged(dash.earlier.hosted, dash.earlier.member),
                                 !.loadingGroups = FALSE, !.earlier = NoEarlier]
  /\ UNCHANGED <<sqlvarsNoDash, fsvars>>

\* What the page renders: a card per entry of groups; groupsError only in the
\* card shown when groups is empty.
ShownGroups == dash.groups
ShownError == IF dash.groups = << >> THEN dash.groupsError ELSE ""

\* ------------------------------------------------------ FeedbackPDFModal
\* "Download Feedback" is offered once the card shows the group complete;
\* the modal loads the rows addressed to the user.
ShowPDF(u) ==
  /\ DashboardShown(u)
  /\ cgroup[u].loaded
  /\ status[u].isComplete
  /\ status[u].userIsParticipant
  /\ pdf' = [pdf EXCEPT ![u] = listGroupFeedbackForRecipient(u, user[u])]
  /\ pdf' # pdf
  /\ UNCHANGED <<dbvars, calls, nextCall, user, cgroup, status, survey, rpcvars>>

\* ----------------------------------------------------------- AuthProvider
\* The state `user`: null, or what applySession and the lookups have set.
NoUser == [uid |-> NULL, email |-> "", emailLower |-> "", firstName |-> "", isHost |-> FALSE]

\* A session of the auth client: no session, or a user with the email of the
\* account or of its metadata.  An anonymous user has none until
\* loginWithInvite has stored email_lower in the metadata.
NoSession == [uid |-> NULL, emailLower |-> ""]
AuthSessions ==
  {NoSession} \cup {[uid |-> Host, emailLower |-> HostEmail]}
    \cup {[uid |-> u, emailLower |-> e] : u \in Sessions, e \in {"", "a"}}

\* What getUserProfile and getMemberIdentityFromInvites resolve with; role
\* "null" stands for null (no row, an error or the 2.5 s timeout).
NoProfile == [emailLower |-> "", firstName |-> "", role |-> "null"]
Profiles ==
  {NoProfile} \cup {[emailLower |-> e, firstName |-> f, role |-> r] :
                      e \in {"", "a"}, f \in {"", "P"}, r \in {"host", "member"}}
Identities ==
  {NoProfile} \cup {[emailLower |-> e, firstName |-> f, role |-> "member"] :
                      e \in {"a", "b"}, f \in {"", "I"}}

NoLookup == [stage |-> "free", uid |-> NULL, emailLower |-> "", how |-> "none"]
LookupIds == 1..MaxLookups

NoAuth == [user |-> NoUser, cancelled |-> FALSE, next |-> 0,
           lookups |-> [l \in LookupIds |-> NoLookup]]

\* a || b on strings
Or(a, b) == IF a # "" THEN a ELSE b

\* The updater of the profile lookup with no test of prev.
ApplyProfileUnchecked(prev, uid, profile) ==
  [prev EXCEPT !.email = Or(prev.email, Or(profile.emailLower, prev.email)),
               !.emailLower = Or(prev.emailLower, Or(profile.emailLower, prev.emailLower)),
               !.firstName = Or(profile.firstName, prev.firstName),
               !.isHost = (profile.role = "host")]

\* setUser((prev) => { if (!prev || prev.uid !== authUser.id) return prev;
\*   return {...prev, email, emailLower, firstName, isHost} })
ApplyProfile(prev, uid, profile) ==
  IF prev.uid = NULL \/ prev.uid # uid THEN prev
  ELSE [prev EXCEPT !.email = Or(prev.email, Or(profile.emailLower, prev.email)),
                    !.emailLower = Or(prev.emailLower, Or(profile.emailLower, prev.emailLower)),
                    !.firstName = Or(profile.firstName, prev.firstName),
                    !.isHost = (profile.role = "host")]

\* The updater of the invite-identity lookup.
ApplyIdentity(prev, uid, identity) ==
  IF prev.uid = NULL \/ prev.uid # uid THEN prev
  ELSE [prev EXCEPT !.email = Or(prev.email, identity.emailLower),
                    !.emailLower = Or(prev.emailLower, identity.emailLower),
                    !.firstName = Or(identity.firstName, prev.firstName)]

\* applySession, called with the session of getSession or of an auth state
\* change: setUser(null), or the user from the session and a profile lookup
\* racing its timeout.
ApplySession(s) ==
  /\ ~auth.cancelled
  /\ IF s.uid = NULL
       THEN auth' = [auth EXCEPT !.user = NoUser]
       ELSE /\ auth.next < MaxLookups
            /\ auth' = [auth EXCEPT
                  !.user = [uid |-> s.uid, email |-> s.emailLower,
                            emailLower |-> s.emailLower,
                            firstName |-> IF s.emailLower = "" THEN "Anonymous"
                                          ELSE s.emailLower,
                            isHost |-> FALSE],
                  !.next = @ + 1,
                  !.lookups[auth.next + 1] =
                     [stage |-> "profile", uid |-> s.uid, emailLower |-> s.emailLower,
                      how |-> "none"]]
  /\ auth' # auth
  /\ UNCHANGED <<appvars, pool>>

\* Promise.race([profilePromise, timeoutPromise]).then(...)
ProfileResolves(l, profile) ==
  /\ auth.lookups[l].stage = "profile"
  /\ LET uid == auth.lookups[l].uid IN
     IF auth.cancelled
       THEN auth' = [auth EXCEPT !.lookups[l].stage = "done", !.lookups[l].how = "cancelled"]
     ELSE IF profile # NoProfile
       THEN auth' = [auth EXCEPT
              !.user = ApplyProfile(auth.user, uid, profile),
              !.lookups[l].stage = "done",
              !.lookups[l].how = IF auth.user.uid = uid THEN "applied" ELSE "stale"]
     ELSE IF auth.lookups[l].emailLower # ""
       THEN auth' = [auth EXCEPT !.lookups[l].stage = "done", !.lookups[l].how = "null"]
     ELSE auth' = [auth EXCEPT !.lookups[l].stage = "invite"]
  /\ UNCHANGED <<appvars, pool>>

\* Promise.race([invitePromise, inviteTimeout]).then(...)
InviteResolves(l, identity) ==
  /\ auth.lookups[l].stage = "invite"
  /\ LET uid == auth.lookups[l].uid IN
     IF auth.cancelled
       THEN auth' = [auth EXCEPT !.lookups[l].stage = "done", !.lookups[l].how = "cancelled"]
     ELSE IF identity = NoProfile
       THEN auth' = [auth EXCEPT !.lookups[l].stage = "done", !.lookups[l].how = "null"]
     ELSE auth' = [auth EXCEPT
            !.user = ApplyIdentity(auth.user, uid, identity),
            !.lookups[l].stage = "done",
            !.lookups[l].how = IF auth.user.uid = uid THEN "applied" ELSE "stale"]
  /\ UNCHANGED <<appvars, pool>>

\* The cleanup of the effect: cancelled = true.
Unmount ==
  /\ ~auth.cancelled
  /\ auth' = [auth EXCEPT !.cancelled = TRUE]
  /\ UNCHANGED <<appvars, pool>>

\* ------------------------------------------------------ runWithConcurrency
\* items are numbered from 0 as in the array; an item is its own value.
ItemIds == 0..(MaxItems - 1)
\* The limits the function is called with (gmail 1, otherwise 4), and 0.
Limits == {0, 1, 4}
WorkerIds == 1..Max(Limits)

NoResult == [to |-> -1, ok |-> FALSE]
NoWorker == [pc |-> "none", i |-> -1, arg |-> -1]
NoPool == [pc |-> "idle", n |-> 0, limit |-> 0, nextIndex |-> 0,
           results |-> [i \in ItemIds |-> NoResult],
           called |-> [i \in ItemIds |-> 0],
           workers |-> [w \in WorkerIds |-> NoWorker]]

\* Array.from({ length: ... }) with every slot filled.
NumWorkersAll(limit) == Max(Limits)

\* Array.from({ length: Math.max(1, limit) }, ...)
NumWorkers(limit) == Max({1, limit})

\* One turn of the loop of a worker up to its await: const i = nextIndex;
\* nextIndex += 1; if (i >= items.length) break; handler(items[i], i).
Take(p, w) ==
  IF p.nextIndex >= p.n
    THEN [p EXCEPT !.nextIndex = @ + 1, !.workers[w] = [pc |-> "done", i |-> -1, arg |-> -1]]
    ELSE [p EXCEPT !.nextIndex = @ + 1,
                   !.called[p.nextIndex] = @ + 1,
                   !.workers[w] = [pc |-> "await", i |-> p.nextIndex, arg |-> p.nextIndex]]

\* The workers created one after the other, each running up to its first await.
RECURSIVE StartWorkers(_, _, _)
StartWorkers(p, w, k) ==
  IF w > k THEN p ELSE StartWorkers(Take(p, w), w + 1, k)

\* runWithConcurrency({ items, limit, handler }) up to await Promise.all.
RunWithConcurrency(n, limit) ==
  /\ pool.pc = "idle"
  /\ pool' = StartWorkers([NoPool EXCEPT !.pc = "running", !.n = n, !.limit = limit],
                          1, NumWorkers(limit))
  /\ UNCHANGED <<appvars, auth>>

\* The handler call a worker awaits is fulfilled (the handler of send-invites
\* catches the errors of the provider and returns { to, ok }): results[i] is
\* assigned and the worker takes its next turn.
HandlerSettles(w, ok) ==
  /\ pool.pc = "running"
  /\ pool.workers[w].pc = "await"
  /\ pool' = Take([pool EXCEPT !.results[pool.workers[w].i] =
                                  [to |-> pool.workers[w].arg, ok |-> ok]], w)
  /\ UNCHANGED <<appvars, auth>>

\* await Promise.all(workers); return results
PoolReturn ==
  /\ pool.pc = "running"
  /\ \A w \in WorkerIds : pool.workers[w].pc \in {"none", "done"}
  /\ pool' = [pool EXCEPT !.pc = "returned"]
  /\ UNCHANGED <<appvars, auth>>

\* The next request: another call.
PoolReset ==
  /\ pool.pc = "returned"
  /\ pool' = NoPool
  /\ UNCHANGED <<appvars, auth>>

JsInit ==
  /\ auth = NoAuth
  /\ pool = NoPool

\* ------------------------------------------------------------- Init
Init ==
  /\ group = NoGroupRow
  /\ invitations = [e \in MemberEmails |-> NoInvitation]
  /\ submissions = [u \in Uids |-> 0]
  /\ feedback = {}
  /\ calls = [c \in CallIds |-> NoCall]
  /\ nextCall = 0
  /\ user = [u \in Uids |-> IF u = Host THEN HostEmail ELSE ""]
  /\ cgroup = [u \in Uids |-> NoGroup]
  /\ status = [u \in Uids |-> NoStatus]
  /\ survey = [u \in Uids |-> NoSurvey]
  /\ pdf = [u \in Uids |-> NoPdf]
  /\ deployment = "patch"
  /\ redeem = [u \in Uids |-> NoRedeem]
  /\ delResult = [u \in Uids |-> "none"]
  /\ create = NoCreate
  /\ mail = NoMail("resend")
  /\ dash = FirstLoad
  /\ FsInit
  /\ JsInit

\* The operations every specification has.
Common ==
  \/ \E ms \in CreateInputs : CreateGroup(ms)
  \/ \E u \in Sessions, e \in MemberEmails, pw \in MemberEmails : LoginWithInvite(u, e, pw)
  \/ \E c \in CallIds : TxInsertSubmission(c)
  \/ \E c \in CallIds : TxInsertFeedback(c)
  \/ \E c \in CallIds : TxCommit(c)
  \/ \E c \in CallIds : SubmitReturn(c)

\* The data layer driven by its endpoints.
Next ==
  \/ Common
  \/ \E u \in Uids, items \in ApiItemLists : ApiSubmit(u, items)

Spec == Init /\ [][Next]_vars

\* The data layer with the delete on groups open to every signed-in caller.
NextDelete ==
  \/ Next
  \/ \E u \in Uids : ApiDelete(u)

SpecDelete == Init /\ [][NextDelete]_vars

\* The application: every session works through the screens of the App.
NextApp ==
  \/ Common
  \/ \E u \in Uids : RefreshGroups(u)
  \/ \E u \in Uids : OpenSurvey(u)
  \/ \E u \in Uids, edit \in Edits : UpdateResponse(u, edit)
  \/ \E u \in Uids : HandleNext(u)
  \/ \E u \in Uids : HandleBack(u)
  \/ \E u \in Uids : HandleSubmit(u)
  \/ \E u \in Uids : MarkComplete(u)
  \/ \E u \in Uids : CloseSurvey(u)
  \/ \E u \in Uids : RemoveSelf(u)
  \/ \E u \in Uids : ShowPDF(u)
  \/ \E u \in Uids : DeleteGroup(u)

SpecApp == Init /\ [][NextApp]_vars

\* The redeem_invitation endpoint called by anonymous sessions, under either
\* deployment.
InitRedeem ==
  /\ group = NoGroupRow
  /\ invitations = [e \in MemberEmails |-> NoInvitation]
  /\ submissions = [u \in Uids |-> 0]
  /\ feedback = {}
  /\ calls = [c \in CallIds |-> NoCall]
  /\ nextCall = 0
  /\ user = [u \in Uids |-> IF u = Host THEN HostEmail ELSE ""]
  /\ cgroup = [u \in Uids |-> NoGroup]
  /\ status = [u \in Uids |-> NoStatus]
  /\ survey = [u \in Uids |-> NoSurvey]
  /\ pdf = [u \in Uids |-> NoPdf]
  /\ deployment \in Deployments
  /\ redeem = [u \in Uids |-> NoRedeem]
  /\ delResult = [u \in Uids |-> "none"]
  /\ create = NoCreate
  /\ mail = NoMail("resend")
  /\ dash = FirstLoad
  /\ FsInit
  /\ JsInit

NextRedeem ==
  \/ \E ms \in CreateInputs : CreateGroup(ms)
  \/ \E u \in Sessions, e \in MemberEmails, pw \in MemberEmails : RedeemSelect(u, e, pw)
  \/ \E u \in Sessions : RedeemUpdate(u)

SpecRedeem == InitRedeem /\ [][NextRedeem]_vars

\* The send-invites function beside group creation and invite logins.
InitInvites ==
  /\ group = NoGroupRow
  /\ invitations = [e \in MemberEmails |-> NoInvitation]
  /\ submissions = [u \in Uids |-> 0]
  /\ feedback = {}
  /\ calls = [c \in CallIds |-> NoCall]
  /\ nextCall = 0
  /\ user = [u \in Uids |-> IF u = Host THEN HostEmail ELSE ""]
  /\ cgroup = [u \in Uids |-> NoGroup]
  /\ status = [u \in Uids |-> NoStatus]
  /\ survey = [u \in Uids |-> NoSurvey]
  /\ pdf = [u \in Uids |-> NoPdf]
  /\ deployment = "patch"
  /\ redeem = [u \in Uids |-> NoRedeem]
  /\ delResult = [u \in Uids |-> "none"]
  /\ create = NoCreate
  /\ \E p \in Providers : mail = NoMail(p)
  /\ dash = FirstLoad
  /\ FsInit
  /\ JsInit

NextInvites ==
  \/ \E ms \in CreateInputs : CreateGroup(ms)
  \/ \E u \in Sessions, e \in MemberEmails, pw \in MemberEmails : LoginWithInvite(u, e, pw)
  \/ \E tok \in Tokens, gid \in GroupIds, filter \in SUBSET MemberEmails,
        ok \in SUBSET MemberEmails : SendInvites(tok, gid, filter, ok)

SpecInvites == InitInvites /\ [][NextInvites]_vars

\* The survey wizard filled in field by field.
NextSurvey ==
  \/ \E ms \in CreateInputs : CreateGroup(ms)
  \/ \E u \in Uids : RefreshGroups(u)
  \/ \E u \in Uids : OpenSurvey(u)
  \/ \E u \in Uids, edit \in FieldEdits : UpdateResponse(u, edit)
  \/ \E u \in Uids : HandleNext(u)
  \/ \E u \in Uids : HandleBack(u)
  \/ \E u \in Uids : HandleSubmit(u)
  \/ \E u \in Uids : CloseSurvey(u)
  \/ \E c \in CallIds : TxInsertSubmission(c)
  \/ \E c \in CallIds : TxInsertFeedback(c)
  \/ \E c \in CallIds : TxCommit(c)
  \/ \E c \in CallIds : SubmitReturn(c)

SpecSurvey == Init /\ [][NextSurvey]_vars

\* The Dashboard loading its group list.
NextDashboard ==
  \/ RefreshStart
  \/ \E res \in Settled : HostedSettles(res)
  \/ \E res \in Settled : MemberSettles(res)
  \/ LoadFinish

SpecDashboard == Init /\ [][NextDashboard]_vars

\* The Dashboard with refreshGroups also called while a load is in flight.
NextOverlap ==
  \/ NextDashboard
  \/ RefreshAgain
  \/ \E res \in Settled : EarlierHostedSettles(res)
  \/ \E res \in Settled : EarlierMemberSettles(res)
  \/ EarlierFinish

SpecOverlap == Init /\ [][NextOverlap]_vars

\* The same with the scheduling the browser gives: the timer of withTimeout
\* fires after 15 s and rejects a promise that is still pending, and the
\* continuation of `await Promise.allSettled` runs once both have settled. A
\* query itself need never answer.
SpecDashboardLive ==
  /\ SpecDashboard
  /\ WF_vars(HostedSettles(Rejected))
  /\ WF_vars(MemberSettles(Rejected))
  /\ WF_vars(LoadFinish)

\* The roster functions of the data module called by the host.
NextCreate ==
  \/ \E name \in RawNames, ms \in RawMemberLists : CreateGroupInsert(name, ms)
  \/ \E ok \in BOOLEAN : CreateInvitesInsert(ok)
  \/ \E ms \in RawMemberLists : createGroupInvitations(ms)
  \/ \E ms \in RawMemberLists : UpdateMembers(ms)

SpecCreate == Init /\ [][NextCreate]_vars

\* The Firestore data module under its callers.
NextFirestore ==
  \/ \E ms \in FsCreateInputs : FsCreateGroup(ms)
  \/ FsCreateInvite
  \/ \E u \in Uids : FsSubmitGroupResponse(u)
  \/ \E u \in Sessions, e \in FsEmails, pw \in FsEmails : FsRedeemSelect(u, e, pw)
  \/ \E u \in Sessions : FsRedeemUpdate(u)
  \/ FsDeleteInvitesQuery
  \/ FsDeleteResponsesQuery
  \/ FsDeleteCommit

SpecFirestore == Init /\ [][NextFirestore]_vars

\* The AuthProvider effect under auth state changes, lookups and unmount.
NextAuth ==
  \/ \E s \in AuthSessions : ApplySession(s)
  \/ \E l \in LookupIds, profile \in Profiles : ProfileResolves(l, profile)
  \/ \E l \in LookupIds, identity \in Identities : InviteResolves(l, identity)
  \/ Unmount

SpecAuth == Init /\ [][NextAuth]_vars

\* runWithConcurrency under every order in which the handler calls settle.
NextPool ==
  \/ \E n \in 0..MaxItems, limit \in Limits : RunWithConcurrency(n, limit)
  \/ \E w \in WorkerIds, ok \in BOOLEAN : HandlerSettles(w, ok)
  \/ PoolReturn
  \/ PoolReset

SpecPool == Init /\ [][NextPool]_vars
\* ======================================================== properties
Failed == Results \ {"ok"}
RowsBy(u) == {r \in feedback : r.respondent_uid = u}

\* C1: whatever the interleaving of submit_feedback calls of one respondent,
\* the respondent never has more than one submissions row, no two of the calls
\* succeed, and a call of a respondent who may submit that ends while the
\* respondent already has a submissions row ends with the 'already submitted'
\* error.
SubmitOnce ==
  /\ [](\A u \in Uids : submissions[u] <= 1)
  /\ [](\A c, d \in CallIds :
         (c # d /\ calls[c].uid = calls[d].uid /\ calls[c].pc = "ok") => calls[d].pc # "ok")
  /\ [][ \A d \in CallIds :
          (/\ calls[d].pc \in {"start", "inserted"}
           /\ calls'[d].pc \in Results
           /\ submissions[calls[d].uid] > 0
           /\ submissions_create_member(calls[d].uid))
          => calls'[d].pc = "conflict" ]_vars

\* Two calls of one respondent ran at the same time: one succeeded, the one
\* that waited for it was refused as already submitted.
SubmitOnceWitness ==
  \E c, d \in CallIds :
    /\ c # d /\ calls[c].uid = calls[d].uid
    /\ calls[c].pc = "ok" /\ calls[d].pc = "conflict" /\ calls[d].waited
    /\ submissions[calls[c].uid] = 1

\* C2: a submit_feedback call is atomic: the step in which a call fails leaves
\* the committed submissions and feedback rows as they were, the step in which
\* it succeeds adds its submissions row together with every one of its feedback
\* rows, and no other step but the deletion of the group touches the two tables.
SubmitAtomic ==
  [][ /\ \A c \in CallIds :
           (calls[c].pc \notin Results /\ calls'[c].pc \in Failed)
             => UNCHANGED <<submissions, feedback>>
      /\ \A c \in CallIds :
           (calls[c].pc # "ok" /\ calls'[c].pc = "ok")
             => /\ submissions' = [submissions EXCEPT ![calls[c].uid] = @ + 1]
                /\ feedback' = feedback \cup CallRows(c)
                /\ CallRows(c) \subseteq feedback'
      /\ ( /\ \A c \in CallIds : ~(calls[c].pc # "ok" /\ calls'[c].pc = "ok")
           /\ group'.deleted = group.deleted )
           => UNCHANGED <<submissions, feedback>> ]_vars

\* A call failed on its second item after its submissions row and its first
\* feedback row had been inserted, and nothing of it is stored.
SubmitAtomicWitness ==
  \E c \in CallIds :
    /\ calls[c].pc = "notnull" /\ calls[c].k = 2
    /\ submissions[calls[c].uid] = 0
    /\ RowsBy(calls[c].uid) = {}

\* C3: every feedback row an identity can select is addressed to that identity.
ReadsOnlyOwnFeedback ==
  \A u \in Uids : \A r \in FeedbackReadable(u) : r.recipient_email_lower = user[u]

\* C4: what a recipient retrieves for the group (the feedback rows addressed to
\* them and the submission progress rows) does not depend on who authored the
\* rows: exchanging two other identities as authors leaves it unchanged.
SwapUid(v, x, y) == IF v = x THEN y ELSE IF v = y THEN x ELSE v

RecipientView(u, fb, subs) ==
  [feedback |-> {r \in fb : /\ feedback_read_host(u, r) \/ feedback_read_recipient(u, r)
                            /\ r.recipient_email_lower = Lower(user[u])},
   progress |-> IF submissions_read(u) THEN {v \in Uids : subs[v] > 0} ELSE {}]

AuthorsHidden ==
  \A u \in Uids : \A x, y \in Uids \ {u} :
    (SignedIn(u) /\ x # y /\ submissions_create_member(x) /\ submissions_create_member(y))
    => RecipientView(u, {[r EXCEPT !.respondent_uid = SwapUid(@, x, y)] : r \in feedback},
                        [v \in Uids |-> submissions[SwapUid(v, x, y)]])
         = RecipientView(u, feedback, submissions)

\* C8: the scores of a stored submission add up to 100 points for every roster
\* member other than the respondent.
ExactBudget ==
  \A u \in Uids :
    submissions[u] > 0 =>
      SumScores(SetToSeq(RowsBy(u))) = 100 * Len(FilterOut(group.members, user[u]))

\* C9: no feedback row is addressed to the respondent who wrote it.
NoSelfFeedback ==
  \A r \in feedback : r.recipient_email_lower # user[r.respondent_uid]

\* Every roster member has submitted (a session submits for the address it
\* signed in with).
MemberSubmitted(e) == \E v \in Uids : submissions[v] > 0 /\ user[v] = e
AllSubmitted == Len(group.members) >= 1 /\ \A e \in Range(group.members) : MemberSubmitted(e)

\* The dashboard of u shows the group and its status as a load now returns them.
Fresh(u) == cgroup[u].loaded /\ cgroup[u] = LoadedGroup(u, group) /\ status[u] = LoadedStatus(u, group)

\* C5: once every roster member has submitted, the status a session loads for
\* the group is complete.
CompleteWhenAllSubmitted ==
  \A u \in Uids : (AllSubmitted /\ Fresh(u)) => status[u].isComplete

\* C6: a session obtains feedback rows addressed to it only when every roster
\* member has submitted.
ReportOnlyWhenComplete ==
  \A u \in Uids : pdf[u] # {} => AllSubmitted

\* C7: a group card that has shown the group complete never shows it open
\* again while the group is listed.
NeverReopens ==
  [][ \A u \in Uids :
        (status[u].isComplete /\ cgroup'[u].loaded) => status'[u].isComplete ]_vars

\* C10: the feedback rows of a submission name every roster member other than
\* the respondent exactly once and nobody else, the roster being the one stored
\* when the submission is committed.
RecipientsOf(items) == [i \in 1..Len(items) |-> Lower(items[i].recipientEmailLower)]

CoversRoster ==
  [][ \A c \in CallIds :
        (calls[c].pc # "ok" /\ calls'[c].pc = "ok")
          => LET expected == FilterOut(group.members, user[calls[c].uid])
                 named == RecipientsOf(calls[c].items) IN
             /\ Range(named) = Range(expected)
             /\ Len(named) = Len(expected) ]_vars

\* C11: the completed count a group card shows never exceeds the total (the
\* size of the roster the card loaded).
CompletedWithinTotal ==
  \A u \in Uids : (cgroup[u].loaded /\ ~status[u].loading) => status[u].completed <= status[u].total

\* A step in which caller u runs the select of a redeem_invitation call.
RedeemSelectStep(u) == redeem[u].pc # "selected" /\ redeem'[u] # redeem[u]

\* C12: under the strict policy (schema.sql) a call with the right email and
\* password by an identity other than the one the invitation is bound to fails
\* with 'Invitation already redeemed' and leaves the row as it is, and the
\* redeemed_by_uid of an invitation never changes once it is not null.
StrictRedeemRefuses ==
  [][ deployment = "schema" =>
        /\ \A u \in Uids :
             (/\ RedeemSelectStep(u)
              /\ redeem'[u].result # "invalid"
              /\ invitations[redeem'[u].email].redeemed_by_uid \notin {NULL, u})
             => (redeem'[u].result = "already" /\ invitations' = invitations)
        /\ \A e \in MemberEmails :
             (invitations[e].redeemed_by_uid # NULL /\ invitations'[e].exists)
             => invitations'[e].redeemed_by_uid = invitations[e].redeemed_by_uid ]_vars

\* C13: a redeem_invitation call with the right email and password by the
\* identity the invitation is already bound to succeeds at once, returns the
\* invitation as stored and changes no row.
RedeemIdempotent ==
  [][ \A u \in Uids :
        (/\ RedeemSelectStep(u)
         /\ redeem'[u].result # "invalid"
         /\ invitations[redeem'[u].email].redeemed_by_uid = u)
        => /\ redeem'[u].pc = "returned" /\ redeem'[u].result = "ok"
           /\ redeem'[u].by = u
           /\ redeem'[u].at = invitations[redeem'[u].email].redeemed_at
           /\ invitations' = invitations ]_vars

\* An identity redeemed an invitation and redeemed it again: the second call
\* returned the row bound to it without an update, stamped as the first left it.
RedeemIdempotentWitness ==
  \E u \in Sessions :
    /\ redeem[u].pc = "returned" /\ redeem[u].result = "ok" /\ ~redeem[u].updated
    /\ redeem[u].by = u /\ redeem[u].at > 0
    /\ invitations[redeem[u].email].redeemed_by_uid = u
    /\ invitations[redeem[u].email].redeemed_at = redeem[u].at

\* A step in which a redeem_invitation call of u returns its invitation.
RedeemOkStep(u) ==
  /\ redeem'[u] # redeem[u]
  /\ redeem'[u].pc = "returned"
  /\ redeem'[u].result = "ok"

\* C22: with patch.sql a call with the email and password of an invitation
\* never fails, whoever the invitation is bound to; when it returns the
\* invitation is bound to its caller, and the binding changes in no other step.
LatestSessionWins ==
  [][ deployment = "patch" =>
        /\ \A u \in Uids :
             (RedeemSelectStep(u) /\ redeem_found(redeem'[u].email, redeem'[u].pw))
             => redeem'[u].result \notin {"invalid", "already"}
        /\ \A u \in Uids :
             (RedeemOkStep(u) /\ invitations'[redeem'[u].email].exists)
             => invitations'[redeem'[u].email].redeemed_by_uid = u
        /\ \A e \in MemberEmails :
             invitations'[e].redeemed_by_uid # invitations[e].redeemed_by_uid
             => \E u \in Uids : RedeemOkStep(u) /\ redeem'[u].email = e ]_vars

\* An invitation bound to one session was redeemed by another one and is now
\* bound to that one.
LatestSessionWinsWitness ==
  /\ deployment = "patch"
  /\ \E u, v \in Sessions :
       /\ u # v
       /\ redeem[v].result = "ok" /\ redeem[v].updated /\ redeem[v].at = 1
       /\ redeem[u].result = "ok" /\ redeem[u].updated /\ redeem[u].at = 2
       /\ redeem[u].email = redeem[v].email
       /\ invitations[redeem[u].email].redeemed_by_uid = u

\* Under the SQL schema: once the group is deleted no invitation, submission
\* or feedback row of it is left, whatever ran beside the delete.
CascadeLeavesNothing ==
  ~group.exists =>
    /\ \A e \in MemberEmails : ~invitations[e].exists
    /\ \A u \in Uids : submissions[u] = 0
    /\ feedback = {}

\* The group was deleted after a submission had been committed, and the rows
\* of the submission went with it.
CascadeWitness ==
  /\ group.deleted
  /\ \E c \in CallIds : calls[c].pc = "ok" /\ Len(calls[c].items) > 0
                          /\ submissions[calls[c].uid] = 0 /\ RowsBy(calls[c].uid) = {}

\* C14: once deleteGroupCascade has deleted the group, no invitation and no
\* response of the group is left, whatever submissions and redemptions ran
\* beside the delete.
FsCascadeLeavesNothing ==
  fsGroup = "gone" =>
    /\ \A e \in FsEmails : ~fsInvitations[e].exists
    /\ \A u \in Uids : fsResponses[u] = 0

\* C15: a deleteGroupCascade call by an identity that is not the host of the
\* group ends with an error and leaves the group and its rows as they were.
DeleteRefusedForNonHost ==
  [][ \A u \in Uids \ {Host} :
        (group.exists /\ delResult'[u] # delResult[u])
        => (delResult'[u] = "error" /\ UNCHANGED dbvars) ]_vars

\* C16: a createGroup call whose name is empty after trimming, that has fewer
\* than 3 valid members, two members with the same normalized email or a
\* member with the host's email fails and stores no group and no invitation.
CreateGroupValidates ==
  ( /\ create.pc # "idle"
    /\ \/ Trim(create.name) = ""
       \/ Len(normalizedMembers(create.members)) < 3
       \/ HasDuplicates(normalizedMembers(create.members))
       \/ HostEmail \in Range(normalizedMembers(create.members)) )
  => ( /\ create.pc = "failed"
       /\ ~group.exists
       /\ \A e \in MemberEmails : ~invitations[e].exists )

\* The request of the step comes with a token of the host of the group it names.
ByHostOfGroup == getUser(mail'.token) = Host /\ GroupFound(mail'.groupId)

OneInvitationPerMember ==
  (group.exists /\ create.pc # "group") =>
    /\ \A e \in Range(group.members) \ {HostEmail} :
         e \in MemberEmails /\ invitations[e].rows = 1
    /\ \A e \in MemberEmails : invitations[e].rows <= 1

\* C19: a step that changes the roster of the group takes the removed host out
\* of members and leaves every invitation, submission and feedback row as it
\* was.
RemoveSelfKeepsRows ==
  [][ (group.exists /\ group'.exists /\ group'.members # group.members)
      => /\ group' = [group EXCEPT !.members = FilterOut(group.members, HostEmail)]
         /\ UNCHANGED <<invitations, submissions, feedback>> ]_vars

\* The host submitted, then removed themself, and the rows they wrote are
\* still stored.
RemoveSelfKeepsRowsWitness ==
  /\ group.exists
  /\ HostEmail \notin Range(group.members)
  /\ submissions[Host] = 1
  /\ RowsBy(Host) # {}

\* C20: when a load ends, the page shows the ids the fulfilled queries
\* returned, each once, and it shows a load error exactly when both queries
\* were rejected.
MergeShown ==
  [][ (dash.loadingGroups /\ ~dash'.loadingGroups) =>
        /\ Range(ShownGroups') =
             Range(dash.hosted.value)
               \cup Range(dash.member.value)
        /\ Cardinality(Range(ShownGroups')) = Len(ShownGroups')
        /\ (ShownError' # "") <=> (dash.hosted = Rejected /\ dash.member = Rejected) ]_vars

\* When at least one query is fulfilled, the page shows the union of the
\* fulfilled results, each id once, and no error; groupsError is set exactly
\* when both queries were rejected.
MergeOfFulfilled ==
  [][ (dash.loadingGroups /\ ~dash'.loadingGroups) =>
        /\ (dash.hosted # Rejected \/ dash.member # Rejected) =>
             /\ Range(ShownGroups') =
                  Range(dash.hosted.value)
                    \cup Range(dash.member.value)
             /\ Cardinality(Range(ShownGroups')) = Len(ShownGroups')
             /\ ShownError' = ""
        /\ (dash'.groupsError # "") <=> (dash.hosted = Rejected /\ dash.member = Rejected) ]_vars

\* Every load or refresh ends with loadingGroups = false; whenever no load
\* is running a refresh can be started, and each of its queries can be
\* fulfilled or rejected whatever the load before it did.
LoadTerminates ==
  /\ dash.loadingGroups ~> ~dash.loadingGroups
  /\ [](~dash.loadingGroups => ENABLED RefreshStart)
  /\ [](\A res \in Settled :
          /\ (dash.loadingGroups /\ dash.hosted = Pending) => ENABLED HostedSettles(res)
          /\ (dash.loadingGroups /\ dash.member = Pending) => ENABLED MemberSettles(res))

\* C23: every load or refresh ends with loadingGroups = false, a load that
\* ends with a query rejected (the timeout) shows the error, and afterwards a
\* refresh can be started and can succeed.
LoadTerminatesWithError ==
  /\ LoadTerminates
  /\ [][ (/\ dash.loadingGroups /\ ~dash'.loadingGroups
          /\ (dash.hosted = Rejected \/ dash.member = Rejected))
        => ShownError' # "" ]_vars

\* C21: whenever the Submit button is enabled, every recipient of the survey
\* has non-blank strengths, non-blank improvements and a score above 0, and
\* the scores add up to 100 for each recipient.
WizardGate ==
  \A u \in Uids :
    SubmitEnabled(u) =>
      /\ \A i \in 1..Len(survey[u].responses) :
           /\ Trim(survey[u].responses[i].strengths) # ""
           /\ Trim(survey[u].responses[i].improvements) # ""
           /\ survey[u].responses[i].score > 0
      /\ SumScores(survey[u].responses) = 100 * Len(survey[u].responses)

\* Submit is enabled on a survey with two recipients whose scores differ.
WizardGateWitness ==
  \E u \in Uids :
    /\ SubmitEnabled(u)
    /\ Len(survey[u].responses) = 2
    /\ survey[u].responses[1].score # survey[u].responses[2].score

\* The submissions rows written by the sessions that signed in with the
\* invitation of e.
SubmissionsOfInvitation(e) ==
  Cardinality({u \in Sessions : user[u] = e /\ submissions[u] > 0})

\* C24: with the patch.sql functions the sessions that redeemed one
\* invitation have at most one submissions row between them.
OneSubmissionPerInvitation ==
  \A e \in MemberEmails : SubmissionsOfInvitation(e) <= 1

\* C25: under the strict policy (schema.sql), of the calls of different
\* identities for one invitation at most one has returned the invitation, and
\* the invitation is bound to the caller it was returned to.
StrictRaceOneWinner ==
  deployment = "schema" =>
    \A u \in Sessions :
      (redeem[u].pc = "returned" /\ redeem[u].result = "ok"
         /\ invitations[redeem[u].email].exists)
      => /\ invitations[redeem[u].email].redeemed_by_uid = u
         /\ \A v \in Sessions \ {u} :
              ~(/\ redeem[v].pc = "returned" /\ redeem[v].result = "ok"
                /\ redeem[v].email = redeem[u].email)

\* C26: once a createGroup call has thrown no groups row of it remains, and
\* once the call has ended a group that exists has the invitation of every
\* member the call was given.
CreateAllOrNothing ==
  /\ create.pc = "failed" => ~group.exists
  /\ (create.pc \in {"failed", "done"} /\ group.exists)
     => \A e \in Range(normalizedMembers(create.members)) : invitations[e].exists

\* The caller has redeemed an invitation of the group, or is its host with
\* the host's email in member_emails.
MayWrite(u) ==
  \/ \E e \in MemberEmails : invitations[e].exists /\ invitations[e].redeemed_by_uid = u
  \/ (group.exists /\ u = Host /\ HostEmail \in Range(group.members))

EarlierLoadKeepsLaterList ==
  [][ (/\ dash.earlier.pc = "running" /\ dash'.earlier.pc = "idle"
       /\ ~dash.running
       /\ ~(dash.hosted = Rejected /\ dash.member = Rejected))
      => dash'.groups = dash.groups ]_vars

\* C29: a profile or invite-identity lookup started for uid U that resolves
\* while the user is null or has another uid leaves the user state as it is.
StaleLookupDiscarded ==
  [][ \A l \in LookupIds :
        (/\ auth.lookups[l].stage \in {"profile", "invite"}
         /\ auth'.lookups[l] # auth.lookups[l]
         /\ auth.user.uid # auth.lookups[l].uid)
        => auth'.user = auth.user ]_vars

\* Lookups that found a profile or an identity have resolved for uids that
\* are no longer the user's, the user being null or another one.
StaleLookupDiscardedWitness ==
  \E l, m \in LookupIds :
    /\ auth.lookups[l].how = "stale"
    /\ auth.lookups[m].how = "stale"
    /\ auth.lookups[l].uid # auth.lookups[m].uid
    /\ auth.user.uid \notin {auth.lookups[l].uid, auth.lookups[m].uid}

\* The handler calls in flight.
InFlight == {w \in WorkerIds : pool.workers[w].pc = "await"}

\* C30: runWithConcurrency calls the handler at most once per item and, by the
\* time it returns, exactly once for every item; at most max(1, limit) calls
\* are in flight; a result is stored at the index of its item; and it returns
\* only when no handler call is in flight.
PoolCorrect ==
  /\ \A i \in ItemIds : pool.called[i] <= 1
  /\ \A i \in ItemIds : i >= pool.n => pool.called[i] = 0
  /\ pool.pc # "idle" => Cardinality(InFlight) <= Max({1, pool.limit})
  /\ \A w, v \in InFlight : w # v => pool.workers[w].i # pool.workers[v].i
  /\ \A i \in ItemIds : pool.results[i] # NoResult
       => (pool.results[i].to = i /\ pool.called[i] = 1)
  /\ pool.pc = "returned" =>
       /\ InFlight = {}
       /\ \A i \in ItemIds : i < pool.n => (pool.called[i] = 1 /\ pool.results[i].to = i)

\* A call with more items than workers has returned, some sends having failed.
PoolCorrectWitness ==
  /\ pool.pc = "returned"
  /\ pool.n > Max({1, pool.limit})
  /\ pool.limit = 4
  /\ \E i, j \in ItemIds : i < pool.n /\ j < pool.n /\ pool.results[i].ok /\ ~pool.results[j].ok
====
